---- MODULE Spec2Model ----
(***************************************************************************)
(* Model of the speech-segmentation and streaming pipeline of the meeting  *)
(* assistant (src/unnamed/part_000): AudioProcessorManager (ring buffer,   *)
(* VAD callbacks, confirmation timer, post-delay batching, resampling),    *)
(* TranscriptionWebSocketClient (connection state machine) and the         *)
(* transcript reconciler handleWebSocketMessage.                           *)
(*                                                                         *)
(* Conventions.                                                            *)
(*  - A sample is a natural number: the k-th sample the worklet delivers   *)
(*    has value k, so that order, loss and duplication are visible.        *)
(*    0 is the silence a fresh Float32Array holds.                         *)
(*  - Sample rates are in units of 8 kHz (8000 Hz is 1, 16000 Hz is 2).    *)
(*  - What a handler reads from its environment is an input of its action: *)
(*    the VAD's speech.active flag (active) and whether Date.now() is at   *)
(*    least 0.6 s past lastSendTime (late).  lastSendTime itself is kept   *)
(*    as set (TRUE) or null (FALSE).                                       *)
(*  - No event of the program is tied to the clock but the timers, and a   *)
(*    timer's delay bounds its firing only from below: a pending timer may *)
(*    fire at any later step.                                              *)
(*  - null is 0 for handles, rates and capacities, <<>> for the buffer.    *)
(***************************************************************************)
EXTENDS Integers, Sequences, FiniteSets, TLC

\* ------------------------------------------------------------------------
\* Bounds of the model
\* ------------------------------------------------------------------------
MaxSamples == 4
MaxTimers == 2
MaxCalls == 2
MaxRingFrame == 4
MaxRingSamples == 12
MaxSockets == 2
MaxWire == 3
MaxMessages == 2
MaxRequests == 3

\* ------------------------------------------------------------------------
\* Program constants
\* ------------------------------------------------------------------------
\* seconds of audio the ring buffer holds
BufferSeconds == 3
\* the rate appendToBuffer and the flush threshold assume when none is known
\* (16000 Hz)
DefaultRate == 2
\* the rate processAndSendAudio assumes when none is known (44100 Hz, to the
\* next unit)
FallbackRate == 6
\* the rate App asks for (16000 Hz)
TargetSampleRate == 2
\* the post-delay flush threshold, 0.6 s, in tenths of a second
FlushTenths == 6
\* formatAudioData writes one Int16 per sample
BytesPerSample == 2

\* the rates a device may report, and the lengths of the frames it delivers
NativeRates == {1, 2}
FrameLens == {1, 2}

VARIABLES
  \* AudioProcessorManager fields
  audioBuffer, bufferCapacity, bufferIndex, bufferFull,
  tempBuffer, speechStartTimeout, postDelayBuffer, lastSendTime,
  nativeSampleRate, vadInstance, audioContext, audioStream, micSource,
  audioWorkletNode,
  \* the platform around the manager
  pcSetup,      \* where the pending setupAudioCapture call is
  pcSetup2,     \* where a second call, made while the first is pending, is
  streamLive,   \* number of granted media streams whose tracks run
  contextsOpen, \* number of AudioContexts not closed
  ringStart,    \* samples captured when the ring buffer was last initialised
  timers,       \* handles of the setTimeout callbacks not yet run or cleared
  nextTimer,    \* handles given out by setTimeout so far
  speechStartAt,\* samples captured when the pending handle's onSpeechStart ran
  captured,     \* samples delivered by the worklet so far
  \* processAndSendAudio
  nCalls,       \* invocations so far
  inflight,     \* invocations awaiting their resample
  delivered,    \* chunks handed to onAudioChunkReady, in order
  \* TranscriptionWebSocketClient fields
  socket, isConnected, isInitialConfigSent,
  \* the platform around the client
  sockets,      \* the WebSocket objects created so far, by handle
  lastConnect,  \* how the latest connect() call returned
  disconnections, \* invocations of onDisconnectionCallback so far
  \* App: the transcript reconciler
  transcriptQueue, transcript, currentText,
  updates,      \* setTranscript updates React has not rendered yet
  pendingText,  \* the setCurrentText value React has not rendered yet
  nMessages,    \* server messages handled so far
  geminiApiKey, \* whether an API key is configured
  lastSuggestionLength, isGeneratingSuggestion,
  effectDue,    \* a dependency of the AI trigger effect changed; it has not run
  suggestionWords, \* totalWords in the closure of the latest suggestion request
  nRequests     \* suggestion requests issued so far

audioVars == <<audioBuffer, bufferCapacity, bufferIndex, bufferFull,
  tempBuffer, speechStartTimeout, postDelayBuffer, lastSendTime,
  nativeSampleRate, vadInstance, audioContext, audioStream, micSource,
  audioWorkletNode, pcSetup, pcSetup2, streamLive, contextsOpen, ringStart,
  timers, nextTimer, speechStartAt, captured, nCalls,
  inflight,
  delivered>>

wsVars == <<socket, isConnected, isInitialConfigSent, sockets, lastConnect,
  disconnections>>

aiVars == <<geminiApiKey, lastSuggestionLength, isGeneratingSuggestion,
  effectDue, suggestionWords, nRequests>>

uiVars == <<transcriptQueue, transcript, currentText, updates, pendingText,
  nMessages, aiVars>>

vars == <<audioVars, wsVars, uiVars>>

\* ------------------------------------------------------------------------
\* Helpers
\* ------------------------------------------------------------------------
Min(a, b) == IF a < b THEN a ELSE b
Max(a, b) == IF a > b THEN a ELSE b

RECURSIVE Flatten(_)
Flatten(chunks) ==
  IF chunks = <<>> THEN <<>> ELSE Head(chunks) \o Flatten(Tail(chunks))

CeilDiv(a, b) == (a + b - 1) \div b

\* n consecutive samples following the `done` already captured
Frame(done, n) == [i \in 1..n |-> done + i]

\* ------------------------------------------------------------------------
\* Pre-speech ring buffer
\* ------------------------------------------------------------------------
InitBuffer(sampleRate, bufferDurationSeconds) ==
  [audioBuffer |-> [i \in 1..(sampleRate * bufferDurationSeconds) |-> 0],
   bufferCapacity |-> sampleRate * bufferDurationSeconds,
   bufferIndex |-> 0,
   bufferFull |-> FALSE]

RingState ==
  [audioBuffer |-> audioBuffer, bufferCapacity |-> bufferCapacity,
   bufferIndex |-> bufferIndex, bufferFull |-> bufferFull]

\* one iteration of the copy loop of appendToBuffer, then the rest
RECURSIVE AppendLoop(_, _)
AppendLoop(rb, audioData) ==
  IF Len(audioData) = 0 THEN rb
  ELSE
    LET samplesToCopy == Min(Len(audioData), rb.bufferCapacity - rb.bufferIndex)
        index2 == (rb.bufferIndex + samplesToCopy) % rb.bufferCapacity
    IN AppendLoop(
         [audioBuffer |->
            [i \in 1..rb.bufferCapacity |->
               IF i > rb.bufferIndex /\ i <= rb.bufferIndex + samplesToCopy
               THEN audioData[i - rb.bufferIndex]
               ELSE rb.audioBuffer[i]],
          bufferCapacity |-> rb.bufferCapacity,
          bufferIndex |-> index2,
          bufferFull |-> rb.bufferFull \/ (index2 = 0 /\ rb.bufferCapacity > 0)],
         SubSeq(audioData, samplesToCopy + 1, Len(audioData)))

\* an append that copies once and forgets the part of the frame that has to
\* wrap to the start of the buffer
AppendToBufferOnce(rb, rate, audioData) ==
  LET ring == IF rb.audioBuffer = <<>> \/ rb.bufferCapacity = 0
              THEN InitBuffer(IF rate # 0 THEN rate ELSE DefaultRate,
                              BufferSeconds)
              ELSE rb
  IN AppendLoop(ring,
       SubSeq(audioData, 1,
              Min(Len(audioData), ring.bufferCapacity - ring.bufferIndex)))

AppendToBuffer(rb, rate, audioData) ==
  IF rb.audioBuffer = <<>> \/ rb.bufferCapacity = 0
  THEN AppendLoop(InitBuffer(IF rate # 0 THEN rate ELSE DefaultRate, BufferSeconds),
                  audioData)
  ELSE AppendLoop(rb, audioData)

\* a read that forgets to start at the oldest sample once the buffer wrapped
GetBufferedAudioUnrotated(rb) ==
  IF rb.audioBuffer = <<>> \/ rb.bufferCapacity = 0 THEN <<>>
  ELSE IF ~rb.bufferFull THEN SubSeq(rb.audioBuffer, 1, rb.bufferIndex)
  ELSE rb.audioBuffer

GetBufferedAudio(rb) ==
  IF rb.audioBuffer = <<>> \/ rb.bufferCapacity = 0 THEN <<>>
  ELSE IF ~rb.bufferFull THEN SubSeq(rb.audioBuffer, 1, rb.bufferIndex)
  ELSE SubSeq(rb.audioBuffer, rb.bufferIndex + 1, rb.bufferCapacity)
         \o SubSeq(rb.audioBuffer, 1, rb.bufferIndex)

CombineBuffers(preSpeechBuffer, tempBufferArray) ==
  preSpeechBuffer \o Flatten(tempBufferArray)

SetRing(rb) ==
  /\ audioBuffer' = rb.audioBuffer
  /\ bufferCapacity' = rb.bufferCapacity
  /\ bufferIndex' = rb.bufferIndex
  /\ bufferFull' = rb.bufferFull

ringVars == <<audioBuffer, bufferCapacity, bufferIndex, bufferFull>>

\* ------------------------------------------------------------------------
\* Resampler / encoder
\* ------------------------------------------------------------------------
\* length of the OfflineAudioContext that renders the resampled audio
ResampledLength(n, sourceSampleRate, targetSampleRate) ==
  IF sourceSampleRate = targetSampleRate THEN n
  ELSE CeilDiv(n * targetSampleRate, sourceSampleRate)

\* formatAudioData: one Int16 per resampled sample
FormatAudioData(job) ==
  [id |-> job.id, kind |-> job.kind, samples |-> job.samples,
   bytes |-> BytesPerSample * job.outLen]

\* processAndSendAudio up to its await: nothing for an empty chunk; with
\* equal rates resampleAudio returns at once and the chunk is delivered in the
\* same task; otherwise the call waits for its own offline rendering.
ProcessAndSendAudio(kind, audioData) ==
  LET sourceRate == IF nativeSampleRate # 0 THEN nativeSampleRate ELSE FallbackRate
      job == [id |-> nCalls + 1, kind |-> kind, samples |-> audioData,
              outLen |-> ResampledLength(Len(audioData), sourceRate, TargetSampleRate)]
  IN /\ nCalls < MaxCalls
     /\ nCalls' = nCalls + 1
     /\ IF Len(audioData) = 0 THEN UNCHANGED <<inflight, delivered>>
        ELSE IF sourceRate = TargetSampleRate
        THEN /\ delivered' = Append(delivered, FormatAudioData(job))
             /\ UNCHANGED inflight
        ELSE /\ inflight' = inflight \cup {job}
             /\ UNCHANGED delivered

outVars == <<nCalls, inflight, delivered>>

\* the offline rendering of one pending call completes and the chunk is
\* handed to onAudioChunkReady; what the callback does is left to the caller
Rendered(job) ==
  /\ job \in inflight
  /\ inflight' = inflight \ {job}
  /\ delivered' = Append(delivered, FormatAudioData(job))
  /\ UNCHANGED <<ringVars, tempBuffer, speechStartTimeout, postDelayBuffer,
       lastSendTime, nativeSampleRate, vadInstance, audioContext, audioStream,
       micSource, audioWorkletNode, pcSetup, pcSetup2, streamLive,
       contextsOpen,
       ringStart, timers, nextTimer, speechStartAt, captured, nCalls,
       uiVars>>

\* the same, with a callback that does not touch the client
RenderDone(job) ==
  /\ Rendered(job)
  /\ UNCHANGED wsVars

\* ------------------------------------------------------------------------
\* setupAudioCapture, one action per await
\* ------------------------------------------------------------------------
resourceVars == <<vadInstance, audioContext, audioStream, micSource,
  audioWorkletNode, pcSetup, pcSetup2, streamLive, contextsOpen>>
episodeVars == <<tempBuffer, speechStartTimeout, postDelayBuffer, lastSendTime>>
hostVars == <<timers, nextTimer, speechStartAt>>

SetupStart ==
  /\ pcSetup = "idle"
  /\ pcSetup' = "mic"
  /\ UNCHANGED <<pcSetup2, ringVars, ringStart, episodeVars, nativeSampleRate,
       vadInstance, audioContext, audioStream, micSource, audioWorkletNode,
       streamLive, contextsOpen, hostVars, captured, outVars, wsVars, uiVars>>

MicGranted(rate) ==
  /\ pcSetup = "mic"
  /\ streamLive' = streamLive + 1
  /\ audioContext' = TRUE
  /\ contextsOpen' = contextsOpen + 1
  /\ nativeSampleRate' = rate
  /\ SetRing(InitBuffer(rate, BufferSeconds))
  /\ ringStart' = captured
  /\ pcSetup' = "vad"
  /\ UNCHANGED <<pcSetup2, episodeVars, vadInstance, audioStream, micSource,
       audioWorkletNode, hostVars, captured, outVars, wsVars, uiVars>>

VadReady ==
  /\ pcSetup = "vad"
  /\ vadInstance' = 1
  /\ micSource' = TRUE
  /\ pcSetup' = "worklet"
  /\ UNCHANGED <<pcSetup2, ringVars, ringStart, episodeVars, nativeSampleRate,
       audioContext, audioStream, audioWorkletNode, streamLive, contextsOpen,
       hostVars, captured, outVars, wsVars, uiVars>>

WorkletLoaded ==
  /\ pcSetup = "worklet"
  /\ audioWorkletNode' = TRUE
  /\ pcSetup' = "capturing"
  /\ UNCHANGED <<pcSetup2, ringVars, ringStart, episodeVars, nativeSampleRate,
       vadInstance, audioContext, audioStream, micSource, streamLive,
       contextsOpen, hostVars, captured, outVars, wsVars, uiVars>>

\* startRecording runs again while the first setupAudioCapture call is
\* awaiting (isRecording is still false): a second call starts, and takes the
\* same steps on the same fields of the manager
SetupStartAgain ==
  /\ pcSetup \in {"mic", "vad", "worklet"}
  /\ pcSetup2 = "idle"
  /\ pcSetup2' = "mic"
  /\ UNCHANGED <<pcSetup, ringVars, ringStart, episodeVars, nativeSampleRate,
       vadInstance, audioContext, audioStream, micSource, audioWorkletNode,
       streamLive, contextsOpen, hostVars, captured, outVars, wsVars, uiVars>>

\* this.audioContext is overwritten: the context it held stays open
MicGrantedAgain(rate) ==
  /\ pcSetup2 = "mic"
  /\ streamLive' = streamLive + 1
  /\ audioContext' = TRUE
  /\ contextsOpen' = contextsOpen + 1
  /\ nativeSampleRate' = rate
  /\ SetRing(InitBuffer(rate, BufferSeconds))
  /\ ringStart' = captured
  /\ pcSetup2' = "vad"
  /\ UNCHANGED <<pcSetup, episodeVars, vadInstance, audioStream, micSource,
       audioWorkletNode, hostVars, captured, outVars, wsVars, uiVars>>

VadReadyAgain ==
  /\ pcSetup2 = "vad"
  /\ vadInstance' = 2
  /\ micSource' = TRUE
  /\ pcSetup2' = "worklet"
  /\ UNCHANGED <<pcSetup, ringVars, ringStart, episodeVars, nativeSampleRate,
       audioContext, audioStream, audioWorkletNode, streamLive, contextsOpen,
       hostVars, captured, outVars, wsVars, uiVars>>

WorkletLoadedAgain ==
  /\ pcSetup2 = "worklet"
  /\ audioWorkletNode' = TRUE
  /\ pcSetup2' = "capturing"
  /\ UNCHANGED <<pcSetup, ringVars, ringStart, episodeVars, nativeSampleRate,
       vadInstance, audioContext, audioStream, micSource, streamLive,
       contextsOpen, hostVars, captured, outVars, wsVars, uiVars>>

\* clearTimeout: a pending timer never runs; any other handle is ignored
ClearTimeout(handle) == timers \ {handle}

\* the body of releaseAudioResources; live is the number of streams whose
\* tracks run when it is called and phase is where the setup call is left
Released(phase, live) ==
  /\ vadInstance' = 0
  /\ timers' = IF speechStartTimeout # 0 THEN ClearTimeout(speechStartTimeout)
               ELSE timers
  /\ speechStartTimeout' = 0
  /\ speechStartAt' = 0
  /\ audioWorkletNode' = FALSE
  /\ micSource' = FALSE
  /\ contextsOpen' = IF audioContext THEN contextsOpen - 1 ELSE contextsOpen
  /\ audioContext' = FALSE
  /\ streamLive' = IF audioStream THEN live - 1 ELSE live
  /\ audioStream' = FALSE
  /\ audioBuffer' = <<>>
  /\ bufferIndex' = 0
  /\ bufferFull' = FALSE
  /\ tempBuffer' = <<>>
  /\ postDelayBuffer' = <<>>
  /\ lastSendTime' = FALSE
  /\ nativeSampleRate' = 0
  /\ pcSetup' = phase
  /\ UNCHANGED <<pcSetup2, bufferCapacity, ringStart, nextTimer, captured, outVars,
       uiVars>>

ReleaseAudioResources ==
  /\ pcSetup = "capturing"
  /\ Released("stopped", streamLive)
  /\ UNCHANGED wsVars

\* setupAudioCapture fails: its catch block calls releaseAudioResources and
\* throws to the caller.  getUserMedia rejects (no stream was granted) ...
MicDenied ==
  /\ pcSetup = "mic"
  /\ Released("failed", streamLive)
  /\ UNCHANGED wsVars

\* ... or the stream is granted and new AudioContext() throws ...
ContextFailed ==
  /\ pcSetup = "mic"
  /\ Released("failed", streamLive + 1)
  /\ UNCHANGED wsVars

\* ... or MicVAD.new rejects ...
VadFailed ==
  /\ pcSetup = "vad"
  /\ Released("failed", streamLive)
  /\ UNCHANGED wsVars

\* ... or audioWorklet.addModule rejects
WorkletFailed ==
  /\ pcSetup = "worklet"
  /\ Released("failed", streamLive)
  /\ UNCHANGED wsVars

\* ------------------------------------------------------------------------
\* The worklet's audio callback (audioWorkletNode.port.onmessage)
\* ------------------------------------------------------------------------
\* a flush condition that forgets the elapsed time
FlushDueBySizeOnly(totalSamples, rate, elapsedEnough) ==
  totalSamples * 10 >= rate * FlushTenths

\* the flush condition of the post-delay branch: 0.6 s of samples are
\* buffered, or 0.6 s have passed since lastSendTime
FlushDue(totalSamples, rate, elapsedEnough) ==
  totalSamples * 10 >= rate * FlushTenths \/ elapsedEnough

\* a frame of n samples arrives; active is currentVadInstance.speech.active
\* and late is (Date.now() - lastSendTime) / 1000 >= 0.6 as the handler
\* reads them
OnMessage(n, active, late) ==
  LET audioData == Frame(captured, n)
      rb == AppendToBuffer(RingState, nativeSampleRate, audioData)
      post2 == Append(postDelayBuffer, audioData)
      totalSamples == Len(Flatten(post2))
      elapsedEnough == lastSendTime /\ late
      rate == IF nativeSampleRate # 0 THEN nativeSampleRate ELSE DefaultRate
  IN /\ audioWorkletNode
     /\ captured + n <= MaxSamples
     /\ captured' = captured + n
     /\ SetRing(rb)
     /\ ringStart' = IF audioBuffer = <<>> \/ bufferCapacity = 0
                     THEN captured ELSE ringStart
     /\ IF active
        THEN IF speechStartTimeout # 0
             THEN /\ tempBuffer' = Append(tempBuffer, audioData)
                  /\ UNCHANGED <<postDelayBuffer, lastSendTime, outVars>>
             ELSE IF FlushDue(totalSamples, rate, elapsedEnough)
                  THEN /\ ProcessAndSendAudio("post", Flatten(post2))
                       /\ postDelayBuffer' = <<>>
                       /\ lastSendTime' = TRUE
                       /\ UNCHANGED tempBuffer
                  ELSE /\ postDelayBuffer' = post2
                       /\ UNCHANGED <<tempBuffer, lastSendTime, outVars>>
        ELSE UNCHANGED <<tempBuffer, postDelayBuffer, lastSendTime, outVars>>
     /\ UNCHANGED <<speechStartTimeout, nativeSampleRate, resourceVars, hostVars,
          wsVars, uiVars>>

\* ------------------------------------------------------------------------
\* The VAD's edges and the confirmation timer
\* ------------------------------------------------------------------------
OnSpeechStart ==
  /\ vadInstance # 0
  /\ nextTimer < MaxTimers
  /\ nextTimer' = nextTimer + 1
  /\ tempBuffer' = <<>>
  /\ postDelayBuffer' = <<>>
  /\ lastSendTime' = FALSE
  /\ speechStartAt' = captured
  /\ timers' = timers \cup {nextTimer + 1}
  /\ speechStartTimeout' = nextTimer + 1
  /\ UNCHANGED <<ringVars, ringStart, nativeSampleRate, resourceVars, captured,
       outVars, wsVars, uiVars>>

\* the callback of the confirmation timer t; active is
\* currentVadInstance.speech.active as the callback reads it
TimerFire(t, active) ==
  /\ t \in timers
  /\ timers' = timers \ {t}
  /\ IF active
     THEN /\ ProcessAndSendAudio("onset",
               CombineBuffers(GetBufferedAudio(RingState), tempBuffer))
          /\ lastSendTime' = TRUE
          /\ tempBuffer' = <<>>
     ELSE UNCHANGED <<lastSendTime, tempBuffer, outVars>>
  /\ speechStartTimeout' = 0
  /\ speechStartAt' = 0
  /\ UNCHANGED <<ringVars, ringStart, postDelayBuffer, nativeSampleRate,
       resourceVars, nextTimer, captured, wsVars, uiVars>>

OnSpeechEnd ==
  /\ vadInstance # 0
  /\ IF speechStartTimeout # 0
     THEN /\ timers' = ClearTimeout(speechStartTimeout)
          /\ speechStartTimeout' = 0
          /\ speechStartAt' = 0
          /\ ProcessAndSendAudio("early",
               CombineBuffers(GetBufferedAudio(RingState), tempBuffer))
          /\ tempBuffer' = <<>>
          /\ UNCHANGED postDelayBuffer
     ELSE IF Len(postDelayBuffer) > 0
     THEN /\ ProcessAndSendAudio("tail", Flatten(postDelayBuffer))
          /\ postDelayBuffer' = <<>>
          /\ UNCHANGED <<timers, speechStartTimeout, speechStartAt, tempBuffer>>
     ELSE UNCHANGED <<timers, speechStartTimeout, speechStartAt, tempBuffer,
            postDelayBuffer, outVars>>
  /\ UNCHANGED <<ringVars, ringStart, lastSendTime, nativeSampleRate,
       resourceVars, nextTimer, captured, wsVars, uiVars>>

\* ------------------------------------------------------------------------
\* TranscriptionWebSocketClient
\* ------------------------------------------------------------------------
\* A WebSocket object, with what the connect() call that made it holds in its
\* closure: the connection timer and the promise.  wire is what was passed to
\* its send(), in order; opened says its onopen handler has run.  The client's
\* isRecording field is written and never read; it is left out.
NewWebSocket ==
  [readyState |-> "CONNECTING", wire |-> <<>>, opened |-> FALSE,
   timeout |-> "pending", promise |-> "pending"]

\* socket.send(msg)
SendOn(socks, s, msg) == [socks EXCEPT ![s].wire = Append(@, msg)]

\* socket.close(): starts the closing handshake of a socket not yet closing
CloseSocket(socks, s) ==
  [socks EXCEPT ![s].readyState =
     IF @ \in {"CONNECTING", "OPEN"} THEN "CLOSING" ELSE @]

\* clearTimeout(connectionTimeout) in the handlers of socket s
ClearConnectionTimeout(socks, s) ==
  [socks EXCEPT ![s].timeout = IF @ = "pending" THEN "cleared" ELSE @]

\* resolve / reject of the promise of the call that made s: the first wins
Settle(socks, s, outcome) ==
  [socks EXCEPT ![s].promise = IF @ = "pending" THEN outcome ELSE @]

\* the guard that makes connect() return at once
ConnectGuardOpenOnly(sock, socks) ==
  sock # 0 /\ socks[sock].readyState = "OPEN"

ConnectGuard(sock, socks) ==
  sock # 0 /\ socks[sock].readyState \in {"OPEN", "CONNECTING"}

\* sendInitialConfig, on whatever this.socket is when it runs
SendInitialConfig(sock, socks, sent) ==
  IF sock # 0 /\ socks[sock].readyState = "OPEN" /\ ~sent
  THEN [sockets |-> SendOn(socks, sock, "config"), isInitialConfigSent |-> TRUE]
  ELSE [sockets |-> socks, isInitialConfigSent |-> sent]

Connect ==
  /\ IF ConnectGuard(socket, sockets)
     THEN /\ lastConnect' = "resolved"
          /\ UNCHANGED <<socket, sockets>>
     ELSE /\ Len(sockets) < MaxSockets
          /\ sockets' = Append(sockets, NewWebSocket)
          /\ socket' = Len(sockets) + 1
          /\ lastConnect' = "pending"
  /\ UNCHANGED <<isConnected, isInitialConfigSent, disconnections, audioVars,
       uiVars>>

\* the open event of socket s and its onopen handler
OnOpen(s) ==
  LET opened == [ClearConnectionTimeout(sockets, s) EXCEPT
                   ![s].readyState = "OPEN", ![s].opened = TRUE]
      cfg == SendInitialConfig(socket, opened, FALSE)
  IN /\ sockets[s].readyState = "CONNECTING"
     /\ isConnected' = TRUE
     /\ isInitialConfigSent' = cfg.isInitialConfigSent
     /\ sockets' = Settle(cfg.sockets, s, "resolved")
     /\ UNCHANGED <<socket, lastConnect, disconnections, audioVars, uiVars>>

\* the connection of socket s is closed: the platform sets it CLOSED and, in
\* one task, fires error (when the connection failed) and then close.  A
\* connection that was never established has failed.
OnClose(s, failed) ==
  LET afterError == IF failed THEN FALSE ELSE isConnected
      wasConnected == afterError
  IN /\ sockets[s].readyState # "CLOSED"
     /\ ~sockets[s].opened => failed
     /\ sockets' = [ClearConnectionTimeout(sockets, s) EXCEPT
                      ![s].readyState = "CLOSED"]
     /\ isConnected' = FALSE
     /\ disconnections' = IF wasConnected THEN disconnections + 1
                          ELSE disconnections
     /\ UNCHANGED <<socket, isInitialConfigSent, lastConnect, audioVars, uiVars>>

\* the 10 s timer of the connect() call that made socket s
ConnectionTimeout(s) ==
  /\ sockets[s].timeout = "pending"
  /\ sockets' =
       LET fired == [sockets EXCEPT ![s].timeout = "fired"]
       IN IF socket # 0 /\ sockets[socket].readyState # "OPEN"
          THEN Settle(CloseSocket(fired, socket), s, "rejected")
          ELSE fired
  /\ UNCHANGED <<socket, isConnected, isInitialConfigSent, lastConnect,
       disconnections, audioVars, uiVars>>

SendAudioData ==
  /\ socket # 0 => Len(sockets[socket].wire) < MaxWire
  /\ IF ~isConnected \/ socket = 0 \/ sockets[socket].readyState # "OPEN"
     THEN UNCHANGED <<sockets, isInitialConfigSent>>
     ELSE LET cfg == SendInitialConfig(socket, sockets, isInitialConfigSent)
          IN /\ sockets' = SendOn(cfg.sockets, socket, "audio")
             /\ isInitialConfigSent' = cfg.isInitialConfigSent
  /\ UNCHANGED <<socket, isConnected, lastConnect, disconnections, audioVars,
       uiVars>>

EndTranscription ==
  /\ socket # 0 => Len(sockets[socket].wire) < MaxWire
  /\ IF socket # 0 /\ sockets[socket].readyState = "OPEN"
     THEN sockets' = SendOn(sockets, socket, "END_OF_AUDIO")
     ELSE UNCHANGED sockets
  /\ UNCHANGED <<socket, isConnected, isInitialConfigSent, lastConnect,
       disconnections, audioVars, uiVars>>

Close ==
  /\ IF socket # 0
     THEN /\ sockets' = IF sockets[socket].readyState = "OPEN"
                        THEN CloseSocket(SendOn(sockets, socket, "close"), socket)
                        ELSE sockets
          /\ socket' = 0
          /\ isConnected' = FALSE
          /\ isInitialConfigSent' = FALSE
     ELSE UNCHANGED <<sockets, socket, isConnected, isInitialConfigSent>>
  /\ UNCHANGED <<lastConnect, disconnections, audioVars, uiVars>>

InitWS ==
  /\ socket = 0
  /\ isConnected = FALSE
  /\ isInitialConfigSent = FALSE
  /\ sockets = <<>>
  /\ lastConnect = "none"
  /\ disconnections = 0

NextWS ==
  \/ Connect
  \/ \E s \in DOMAIN sockets : OnOpen(s)
  \/ \E s \in DOMAIN sockets, failed \in BOOLEAN : OnClose(s, failed)
  \/ \E s \in DOMAIN sockets : ConnectionTimeout(s)
  \/ SendAudioData
  \/ EndTranscription
  \/ Close

\* ------------------------------------------------------------------------
\* App: handleWebSocketMessage and the transcript state
\* ------------------------------------------------------------------------
\* What the server may send.  A segment is its text and its completed flag; a
\* Transcript Segment is its text and the message shape it came from (its id,
\* timestamp and confidence play no part in what follows).
Texts == {"", "a", "b"}
\* an element of data.segments that cannot be read (null): reading its
\* completed property throws
NullSegment == [text |-> "", completed |-> FALSE, readable |-> FALSE]
Segments == [text : Texts, completed : BOOLEAN, readable : {TRUE}]
              \cup {NullSegment}
SegmentLists == {<<>>} \cup {<<x>> : x \in Segments}
                  \cup {<<x, y>> : x, y \in Segments}
Messages ==
  {[shape |-> "binary"], [shape |-> "malformed"], [shape |-> "other"]}
    \cup {[shape |-> "segments", segments |-> l] : l \in SegmentLists}
    \cup {[shape |-> "flat", text |-> t] : t \in Texts}

Includes(q, text) == \E i \in DOMAIN q : q[i] = text

\* the forEach over data.segments: the queue, the interim text, and whether
\* an element threw (the rest of the list is then not visited)
RECURSIVE ForEachSegment(_, _, _)
ForEachSegment(segs, queue, newCurrentText) ==
  IF segs = <<>>
  THEN [queue |-> queue, newCurrentText |-> newCurrentText, threw |-> FALSE]
  ELSE LET seg == Head(segs)
       IN IF ~seg.readable
          THEN [queue |-> queue, newCurrentText |-> newCurrentText,
                threw |-> TRUE]
          ELSE IF seg.completed
          THEN ForEachSegment(Tail(segs),
                 IF Includes(queue, seg.text) THEN queue
                 ELSE Append(queue, seg.text),
                 newCurrentText)
          ELSE ForEachSegment(Tail(segs), queue, seg.text)

\* the while loop of the setTranscript updater: shift until the queue is
\* empty, pushing every text that is not empty
RECURSIVE DrainQueue(_, _)
DrainQueue(prev, queue) ==
  IF queue = <<>> THEN prev
  ELSE DrainQueue(
         IF Head(queue) # ""
         THEN Append(prev, [text |-> Head(queue), shape |-> "segments"])
         ELSE prev,
         Tail(queue))

\* one queued update of the transcript state, run on prev; queue is
\* transcriptQueue.current when it runs
RunUpdate(u, prev, queue) ==
  IF u.kind = "state" THEN [transcript |-> u.value, queue |-> queue]
  ELSE IF u.kind = "drain"
  THEN [transcript |-> DrainQueue(prev, queue), queue |-> <<>>]
  ELSE [transcript |-> Append(prev, [text |-> u.text, shape |-> "flat"]),
        queue |-> queue]

RECURSIVE RunUpdates(_, _, _)
RunUpdates(us, prev, queue) ==
  IF us = <<>> THEN [transcript |-> prev, queue |-> queue]
  ELSE LET r == RunUpdate(Head(us), prev, queue)
       IN RunUpdates(Tail(us), r.transcript, r.queue)

\* setTranscript(updater): React runs the updater at once when no update of
\* the component is pending (eager) and keeps its result for the next render;
\* otherwise it queues the updater for the render
SetTranscript(u, queue, eager) ==
  IF eager
  THEN LET r == RunUpdate(u, transcript, queue)
       IN [updates |-> <<[kind |-> "state", value |-> r.transcript]>>,
           queue |-> r.queue]
  ELSE [updates |-> Append(updates, u), queue |-> queue]

\* handleWebSocketMessage(messageData)
HandleWebSocketMessage(m, eager) ==
  /\ nMessages < MaxMessages
  /\ nMessages' = nMessages + 1
  /\ eager => updates = <<>>
  /\ IF m.shape = "segments"
     THEN LET each == ForEachSegment(m.segments, transcriptQueue, "")
              set == SetTranscript([kind |-> "drain"], each.queue, eager)
          IN IF each.threw
             THEN /\ transcriptQueue' = each.queue
                  /\ UNCHANGED <<updates, pendingText>>
             ELSE /\ transcriptQueue' = set.queue
                  /\ updates' = set.updates
                  /\ pendingText' = <<each.newCurrentText>>
     ELSE IF m.shape = "flat" /\ m.text # ""
     THEN LET set == SetTranscript([kind |-> "append", text |-> m.text],
                       transcriptQueue, eager)
          IN /\ transcriptQueue' = set.queue
             /\ updates' = set.updates
             /\ pendingText' = <<"">>
     ELSE UNCHANGED <<transcriptQueue, updates, pendingText>>
  /\ UNCHANGED <<transcript, currentText, aiVars, audioVars, wsVars>>

\* React renders App: the queued updates of the transcript run in order, and
\* the latest setCurrentText value becomes the interim text
Render ==
  LET r == RunUpdates(updates, transcript, transcriptQueue)
  IN /\ updates # <<>>
     /\ transcript' = r.transcript
     /\ transcriptQueue' = r.queue
     /\ updates' = <<>>
     /\ currentText' = pendingText[1]
     /\ pendingText' = <<>>
     /\ effectDue' = TRUE
     /\ UNCHANGED <<nMessages, geminiApiKey, lastSuggestionLength,
          isGeneratingSuggestion, suggestionWords, nRequests, audioVars,
          wsVars>>

InitUI ==
  /\ transcriptQueue = <<>>
  /\ transcript = <<>>
  /\ currentText = ""
  /\ updates = <<>>
  /\ pendingText = <<>>
  /\ nMessages = 0
  /\ geminiApiKey = FALSE
  /\ lastSuggestionLength = 0
  /\ isGeneratingSuggestion = FALSE
  /\ effectDue = TRUE
  /\ suggestionWords = 0
  /\ nRequests = 0

NextUI ==
  \/ \E m \in Messages, eager \in BOOLEAN : HandleWebSocketMessage(m, eager)
  \/ Render

\* ------------------------------------------------------------------------
\* App: the trigger of the automatic AI suggestions
\* ------------------------------------------------------------------------
\* the thresholds of generateAutoSuggestions: words since the last suggestion,
\* and the number of segments that triggers one
SuggestionWords == 10
SuggestionSegments == 3

\* segments.map(s => s.text).join(' ').split(' ').length: the texts of the
\* model are single words, and the empty string splits into one piece
TotalWords(segments) == IF segments = <<>> THEN 1 ELSE Len(segments)

ShouldGenerateSuggestion(segments, last) ==
  \/ TotalWords(segments) >= last + SuggestionWords
  \/ /\ Len(segments) >= SuggestionSegments
     /\ Len(segments) % SuggestionSegments = 0
     /\ TotalWords(segments) > 0

\* the user saves an API key in the settings
SetGeminiApiKey ==
  /\ ~geminiApiKey
  /\ geminiApiKey' = TRUE
  /\ effectDue' = TRUE
  /\ UNCHANGED <<lastSuggestionLength, isGeneratingSuggestion, suggestionWords,
       nRequests, transcriptQueue, transcript, currentText, updates,
       pendingText, nMessages, audioVars, wsVars>>

\* the effect on [transcript, currentText, geminiApiKey, lastSuggestionLength,
\* isGeneratingSuggestion, ...] runs after a render that changed one of them
\* and calls generateAutoSuggestions(transcript), up to its await.  Starting
\* a request sets isGeneratingSuggestion, which makes the effect due again.
\* checkAndGenerateAutoSummary, called next, has the same shape with its own
\* thresholds (50 words, 5 segments) and state; it is not modelled.
RunEffect ==
  LET start == /\ transcript # <<>> \/ currentText # ""
               /\ geminiApiKey
               /\ Len(transcript) # 0
               /\ ShouldGenerateSuggestion(transcript, lastSuggestionLength)
               /\ ~isGeneratingSuggestion
  IN /\ effectDue
     /\ IF start
        THEN /\ nRequests < MaxRequests
             /\ nRequests' = nRequests + 1
             /\ isGeneratingSuggestion' = TRUE
             /\ suggestionWords' = TotalWords(transcript)
             /\ effectDue' = TRUE
        ELSE /\ effectDue' = FALSE
             /\ UNCHANGED <<isGeneratingSuggestion, suggestionWords, nRequests>>
     /\ UNCHANGED <<geminiApiKey, lastSuggestionLength, transcriptQueue,
          transcript, currentText, updates, pendingText, nMessages, audioVars,
          wsVars>>

\* callGeminiAPI settles: generateAutoSuggestions resumes after its await and
\* records the length on success; its finally block clears the flag
SuggestionDone(ok) ==
  /\ isGeneratingSuggestion
  /\ lastSuggestionLength' = IF ok THEN suggestionWords
                             ELSE lastSuggestionLength
  /\ isGeneratingSuggestion' = FALSE
  /\ effectDue' = TRUE
  /\ UNCHANGED <<geminiApiKey, suggestionWords, nRequests, transcriptQueue,
       transcript, currentText, updates, pendingText, nMessages, audioVars,
       wsVars>>

NextScheduler ==
  \/ \E m \in Messages, eager \in BOOLEAN : HandleWebSocketMessage(m, eager)
  \/ Render
  \/ SetGeminiApiKey
  \/ RunEffect
  \/ \E ok \in BOOLEAN : SuggestionDone(ok)

\* ------------------------------------------------------------------------
\* Specifications
\* ------------------------------------------------------------------------
InitAudio ==
  /\ audioBuffer = <<>>
  /\ bufferCapacity = 0
  /\ bufferIndex = 0
  /\ bufferFull = FALSE
  /\ tempBuffer = <<>>
  /\ speechStartTimeout = 0
  /\ postDelayBuffer = <<>>
  /\ lastSendTime = FALSE
  /\ nativeSampleRate = 0
  /\ vadInstance = 0
  /\ audioContext = FALSE
  /\ audioStream = FALSE
  /\ micSource = FALSE
  /\ audioWorkletNode = FALSE
  /\ pcSetup = "idle"
  /\ pcSetup2 = "idle"
  /\ streamLive = 0
  /\ contextsOpen = 0
  /\ ringStart = 0
  /\ timers = {}
  /\ nextTimer = 0
  /\ speechStartAt = 0
  /\ captured = 0
  /\ nCalls = 0
  /\ inflight = {}
  /\ delivered = <<>>

NextAudio ==
  \/ SetupStart
  \/ \E rate \in NativeRates : MicGranted(rate)
  \/ VadReady
  \/ WorkletLoaded
  \/ MicDenied
  \/ ContextFailed
  \/ VadFailed
  \/ WorkletFailed
  \/ ReleaseAudioResources
  \/ \E n \in FrameLens, active, late \in BOOLEAN : OnMessage(n, active, late)
  \/ OnSpeechStart
  \/ \E t \in timers, active \in BOOLEAN : TimerFire(t, active)
  \/ OnSpeechEnd
  \/ \E job \in inflight : RenderDone(job)

\* the ring buffer on its own: initBuffer as setupAudioCapture calls it, and
\* appendToBuffer with frames of every length up to MaxRingFrame
RingInit(rate) ==
  /\ SetRing(InitBuffer(rate, BufferSeconds))
  /\ ringStart' = captured
  /\ UNCHANGED <<episodeVars, nativeSampleRate, resourceVars, hostVars,
       captured, outVars, wsVars, uiVars>>

RingAppend(n) ==
  /\ captured + n <= MaxRingSamples
  /\ SetRing(AppendToBuffer(RingState, nativeSampleRate, Frame(captured, n)))
  /\ ringStart' = IF audioBuffer = <<>> \/ bufferCapacity = 0
                  THEN captured ELSE ringStart
  /\ captured' = captured + n
  /\ UNCHANGED <<episodeVars, nativeSampleRate, resourceVars, hostVars,
       outVars, wsVars, uiVars>>

NextRing ==
  \/ \E rate \in NativeRates : RingInit(rate)
  \/ \E n \in 1..MaxRingFrame : RingAppend(n)

\* ------------------------------------------------------------------------
\* The App component: recording over the client
\* ------------------------------------------------------------------------
\* the isRecording state: startRecording sets it when setupAudioCapture has
\* succeeded and stopRecording clears it; nothing else writes it
isRecording == pcSetup = "capturing"

\* the mount effect: connectWebSocket() runs once, when App is mounted, makes
\* the client and calls its connect()
MountEffect ==
  /\ sockets = <<>>
  /\ Connect

\* startRecording once it has found the client connected
StartRecording ==
  /\ socket # 0
  /\ isConnected
  /\ SetupStart

\* the onAudioChunkReady callback startRecording passes to the capture: the
\* chunk goes to sendAudioData when the client is connected
OnAudioChunkReady ==
  IF socket # 0 /\ isConnected /\ sockets[socket].readyState = "OPEN"
  THEN LET cfg == SendInitialConfig(socket, sockets, isInitialConfigSent)
       IN /\ Len(sockets[socket].wire) < MaxWire
          /\ sockets' = SendOn(cfg.sockets, socket, "audio")
          /\ isInitialConfigSent' = cfg.isInitialConfigSent
          /\ UNCHANGED <<socket, isConnected, lastConnect, disconnections>>
  ELSE UNCHANGED wsVars

\* a rendered chunk reaches the App's callback
ChunkDelivered(job) ==
  /\ Rendered(job)
  /\ OnAudioChunkReady

\* the App is run at the native rates that differ from the target rate, at
\* which every chunk is rendered before it is delivered
AppRates == NativeRates \ {TargetSampleRate}

\* stopRecording: releases the capture, then ends the transcription when the
\* client is connected.  The client's onDisconnection callback (in OnClose)
\* sets connectionStatus and adds a chat message, neither of them modelled.
StopRecording ==
  /\ isRecording
  /\ socket # 0 => Len(sockets[socket].wire) < MaxWire
  /\ Released("stopped", streamLive)
  /\ IF socket # 0 /\ isConnected /\ sockets[socket].readyState = "OPEN"
     THEN sockets' = SendOn(sockets, socket, "END_OF_AUDIO")
     ELSE UNCHANGED sockets
  /\ UNCHANGED <<socket, isConnected, isInitialConfigSent, lastConnect,
       disconnections>>

NextApp ==
  \/ MountEffect
  \/ \E s \in DOMAIN sockets : OnOpen(s)
  \/ \E s \in DOMAIN sockets, failed \in BOOLEAN : OnClose(s, failed)
  \/ \E s \in DOMAIN sockets : ConnectionTimeout(s)
  \/ StartRecording
  \/ \E rate \in AppRates : MicGranted(rate)
  \/ VadReady
  \/ WorkletLoaded
  \/ MicDenied
  \/ ContextFailed
  \/ VadFailed
  \/ WorkletFailed
  \/ \E n \in FrameLens, active, late \in BOOLEAN : OnMessage(n, active, late)
  \/ OnSpeechStart
  \/ \E t \in timers, active \in BOOLEAN : TimerFire(t, active)
  \/ OnSpeechEnd
  \/ \E job \in inflight : ChunkDelivered(job)
  \/ StopRecording

Init == InitAudio /\ InitWS /\ InitUI

SpecRing == Init /\ [][NextRing]_vars
SpecAudio == Init /\ [][NextAudio]_vars
SpecWS == Init /\ [][NextWS]_vars
SpecApp == Init /\ [][NextApp]_vars
SpecScheduler == Init /\ [][NextScheduler]_vars

\* Two startRecording calls in a row: the setup calls overlap, every await of
\* theirs succeeds, and the capture runs
NextOverlap ==
  \/ SetupStart
  \/ \E rate \in NativeRates : MicGranted(rate)
  \/ VadReady
  \/ WorkletLoaded
  \/ SetupStartAgain
  \/ \E rate \in NativeRates : MicGrantedAgain(rate)
  \/ VadReadyAgain
  \/ WorkletLoadedAgain
  \/ \E n \in FrameLens, active, late \in BOOLEAN : OnMessage(n, active, late)
  \/ OnSpeechStart
  \/ \E t \in timers, active \in BOOLEAN : TimerFire(t, active)
  \/ OnSpeechEnd
  \/ \E job \in inflight : RenderDone(job)
SpecOverlap == Init /\ [][NextOverlap]_vars

\* What the platform guarantees of a socket and of a timer: a timer that is
\* set fires, and a connection that is not closed is opened or closed
SocketFairness ==
  \A s \in 1..MaxSockets :
    /\ WF_vars(s \in DOMAIN sockets /\ ConnectionTimeout(s))
    /\ WF_vars(s \in DOMAIN sockets
                 /\ (OnOpen(s) \/ \E failed \in BOOLEAN : OnClose(s, failed)))
SpecWSFair == SpecWS /\ SocketFairness
SpecTranscript == Init /\ [][NextUI]_vars

\* ------------------------------------------------------------------------
\* Properties of the ring buffer (SpecRing)
\* ------------------------------------------------------------------------
\* C1: after initBuffer with capacity C and any appends, getBufferedAudio
\* returns all the samples appended since, in order, while they are at most
\* C, and exactly the last C of them, oldest first, once they are more.
RingRoundTrip ==
  (audioBuffer # <<>> /\ bufferCapacity > 0) =>
    LET total == captured - ringStart
        keep == Min(total, bufferCapacity)
    IN GetBufferedAudio(RingState) = [i \in 1..keep |-> captured - keep + i]

\* the buffer has wrapped and its write index is inside it: the frames did
\* not divide the capacity and old samples were overwritten
RingWrappedMidway ==
  /\ bufferFull
  /\ bufferIndex # 0
  /\ captured - ringStart > bufferCapacity

\* ------------------------------------------------------------------------
\* Properties of the capture pipeline (SpecAudio)
\* ------------------------------------------------------------------------
\* the chunk the id-th processAndSendAudio call was given, read from the
\* calls in flight fl and the chunks delivered dl (empty: nothing is
\* resampled or delivered)
ChunkOfCall(id, fl, dl) ==
  LET js == {j \in fl : j.id = id}
      ds == {i \in DOMAIN dl : dl[i].id = id}
  IN IF js # {} THEN (CHOOSE j \in js : TRUE).samples
     ELSE IF ds # {} THEN dl[CHOOSE i \in ds : TRUE].samples
     ELSE <<>>

\* run occurs in chunk as consecutive elements
ContainsRun(chunk, run) ==
  \E o \in 0..(Len(chunk) - Len(run)) :
    \A i \in 1..Len(run) : chunk[o + i] = run[i]

\* C2: when the confirmation timer of the onSpeechStart that ran after K
\* samples fires with speech active after T samples, the chunk given to
\* processAndSendAudio holds the samples max(0, K - lookback) + 1 .. T as one
\* run without gaps, the lookback being the capacity of the ring buffer.
OnsetChunkComplete ==
  [][\A t \in timers :
       (t = speechStartTimeout /\ TimerFire(t, TRUE)) =>
         LET from == Max(0, speechStartAt - bufferCapacity)
         IN ContainsRun(ChunkOfCall(nCalls + 1, inflight', delivered'),
                        [i \in 1..(captured - from) |-> from + i])]_vars

\* C3: no captured sample is handed to the output callback more than once.
NoSampleTwice ==
  \A k \in 1..captured :
    Cardinality({ij \in {<<i, j>> : i \in DOMAIN delivered, j \in 1..MaxSamples * 2} :
                   /\ ij[2] <= Len(delivered[ij[1]].samples)
                   /\ delivered[ij[1]].samples[ij[2]] = k}) <= 1

\* C4: when onSpeechEnd runs while the timer set by the latest onSpeechStart
\* is pending, that timer is cancelled (so its callback never runs) and
\* exactly one flush is made, of the ring buffer followed by the temp buffer.
EarlyEndCancelsTimer ==
  [][(OnSpeechEnd /\ nextTimer \in timers) =>
       /\ nextTimer \notin timers'
       /\ nCalls' = nCalls + 1
       /\ ChunkOfCall(nCalls + 1, inflight', delivered') =
            CombineBuffers(GetBufferedAudio(RingState), tempBuffer)]_vars

\* C7: chunks reach the output callback in the order of the
\* processAndSendAudio calls that made them.
ChunksInCallOrder ==
  \A i, j \in DOMAIN delivered :
    i < j => delivered[i].id < delivered[j].id

\* ------------------------------------------------------------------------
\* Properties of the socket client (SpecWS)
\* ------------------------------------------------------------------------
CountOf(w, msg) == Cardinality({i \in DOMAIN w : w[i] = msg})

\* C6: on every socket that opened, the configuration message was sent
\* exactly once, and before any audio payload on that socket; on a socket
\* that has not opened nothing was sent.
HandshakeOnceAndFirst ==
  \A s \in DOMAIN sockets :
    LET w == sockets[s].wire
    IN /\ CountOf(w, "config") = (IF sockets[s].opened THEN 1 ELSE 0)
       /\ \A i \in DOMAIN w :
            w[i] = "audio" => \E j \in 1..(i - 1) : w[j] = "config"

\* C8: connect() while the client's socket is CONNECTING or OPEN makes no
\* socket, sends nothing, leaves the client's socket in place and resolves.
ConnectIdempotent ==
  [][(Connect /\ socket # 0
        /\ sockets[socket].readyState \in {"CONNECTING", "OPEN"}) =>
       /\ sockets' = sockets
       /\ socket' = socket
       /\ lastConnect' = "resolved"]_vars

\* a second connect() has returned while the first is still pending
ConnectWhilePending ==
  /\ lastConnect = "resolved"
  /\ Len(sockets) = 1
  /\ socket = 1
  /\ sockets[1].readyState = "CONNECTING"

\* C9: the close event of a socket invokes the disconnection callback exactly
\* once when the client had reached Connected on that socket, an error event
\* before the close or not, and not at all when it never had.
DisconnectionReported ==
  [][\A s \in DOMAIN sockets, failed \in BOOLEAN :
       OnClose(s, failed) =>
         disconnections' =
           disconnections + (IF sockets[s].opened THEN 1 ELSE 0)]_vars

\* C10: when the timer of a connect() call fires and the socket that call
\* made has not opened, that socket is force-closed and the call is rejected.
\* (The handlers of a socket that opens clear the timer: it fires only for a
\* socket that has not opened.)
TimeoutClosesAndRejects ==
  [][\A s \in DOMAIN sockets :
       (ConnectionTimeout(s) /\ ~sockets[s].opened) =>
         /\ sockets'[s].readyState \in {"CLOSING", "CLOSED"}
         /\ sockets'[s].promise = "rejected"]_vars

\* ------------------------------------------------------------------------
\* Properties of the transcript (SpecTranscript)
\* ------------------------------------------------------------------------
\* C5: the transcript never holds two Segments, made from segment-list
\* messages, with the same text.
NoDuplicateSegment ==
  \A i, j \in DOMAIN transcript :
    (i # j /\ transcript[i].shape = "segments"
           /\ transcript[j].shape = "segments") =>
      transcript[i].text # transcript[j].text

\* ------------------------------------------------------------------------
\* Properties of teardown (SpecAudio)
\* ------------------------------------------------------------------------
\* C11: releaseAudioResources leaves the ring buffer (buffer, capacity,
\* cursor, wrap flag), the temp and post-delay buffers, the last-flush time
\* and the native sample rate as they were before setupAudioCapture was first
\* called, the VAD, worklet node, mic source and audio context released, and
\* no media track of a captured stream running.
StopRestoresInitial ==
  [][ReleaseAudioResources =>
       /\ audioBuffer' = <<>> /\ bufferCapacity' = 0
       /\ bufferIndex' = 0 /\ bufferFull' = FALSE
       /\ tempBuffer' = <<>> /\ postDelayBuffer' = <<>>
       /\ lastSendTime' = FALSE /\ nativeSampleRate' = 0
       /\ vadInstance' = 0 /\ ~audioWorkletNode' /\ ~micSource'
       /\ ~audioContext' /\ contextsOpen' = 0
       /\ streamLive' = 0]_vars

\* C12: no callback of a confirmation timer runs once releaseAudioResources
\* has run.
NoTimerAfterStop ==
  [][\A t \in timers, active \in BOOLEAN :
       TimerFire(t, active) => pcSetup # "stopped"]_vars

\* C13: when setupAudioCapture fails after the microphone was granted (the
\* audio context, the VAD or the worklet module), the failure is thrown to the
\* caller and nothing acquired is still held: no track runs, no audio context
\* is open, no VAD runs.
SetupFailureClean ==
  [][(ContextFailed \/ VadFailed \/ WorkletFailed) =>
       /\ pcSetup' = "failed"
       /\ streamLive' = 0
       /\ contextsOpen' = 0
       /\ vadInstance' = 0]_vars

\* ------------------------------------------------------------------------
\* Properties of message handling (SpecTranscript)
\* ------------------------------------------------------------------------
\* the messages whose handling fails: invalid JSON, or a segment list with an
\* element that cannot be read
FailingMessages ==
  {m \in Messages :
     \/ m.shape = "malformed"
     \/ /\ m.shape = "segments"
        /\ \E i \in DOMAIN m.segments : ~m.segments[i].readable}

\* C15: a message whose handling fails leaves the transcript, the interim
\* text and the queue of completed texts (and what is pending of them for the
\* next render) as they were.
FailedMessageChangesNothing ==
  [][\A m \in FailingMessages, eager \in BOOLEAN :
       HandleWebSocketMessage(m, eager) =>
         UNCHANGED <<transcript, currentText, transcriptQueue, updates,
                     pendingText>>]_vars

\* the text of the last segment of segs that is not completed, "" if none
LastInterim(segs) ==
  LET idx == {i \in DOMAIN segs : ~segs[i].completed}
  IN IF idx = {} THEN ""
     ELSE segs[CHOOSE i \in idx : \A j \in idx : j <= i].text

\* the interim text as the next render shows it
Interim == IF pendingText # <<>> THEN pendingText[1] ELSE currentText

\* the transcript as the next render shows it, from the pending updates us,
\* the transcript tr and the queue q
Eventual(us, tr, q) == RunUpdates(us, tr, q).transcript

\* a message with the one segment: text t, completed
CompletedOnly(t) ==
  [shape |-> "segments",
   segments |-> <<[text |-> t, completed |-> TRUE, readable |-> TRUE]>>]

\* the number of Segments of text t in the transcript tr
CountText(tr, t) == Cardinality({i \in DOMAIN tr : tr[i].text = t})

\* handling the completed-only message of text t, the interim text being t
\* and t not waiting in the queue, adds exactly one Segment of text t and
\* empties the interim text
FinalisesInterim(t) ==
  \A eager \in BOOLEAN :
    (/\ Interim = t
     /\ ~Includes(transcriptQueue, t)
     /\ HandleWebSocketMessage(CompletedOnly(t), eager)) =>
      /\ CountText(Eventual(updates', transcript', transcriptQueue'), t) =
           CountText(Eventual(updates, transcript, transcriptQueue), t) + 1
      /\ pendingText' = <<"">>

\* after a segment-list message the interim text is that of its last segment
\* that is not completed, or empty
InterimIsLastInterim ==
  \A m \in Messages \ FailingMessages, eager \in BOOLEAN :
    (m.shape = "segments" /\ HandleWebSocketMessage(m, eager)) =>
      pendingText' = <<LastInterim(m.segments)>>

\* C16: an interim-only message of text T followed by a completed-only
\* message of text T gives exactly one finalized Segment, of text T, and an
\* empty interim text; and after each segment-list message the interim text is
\* the text of its last non-completed segment, or empty.
InterimReplacedAnyText ==
  [][InterimIsLastInterim /\ \A t \in Texts : FinalisesInterim(t)]_vars

\* the same for the texts that are not empty, the case in which it holds
InterimReplaced ==
  [][InterimIsLastInterim /\ \A t \in Texts \ {""} : FinalisesInterim(t)]_vars

\* the interim text "a" is shown, and the completed-only message of text "a"
\* has been handled and waits for the render
InterimBeingFinalised ==
  /\ nMessages = 2
  /\ currentText = "a"
  /\ transcript = <<>>
  /\ transcriptQueue = <<"a">>
  /\ pendingText = <<"">>

\* ------------------------------------------------------------------------
\* Properties of the post-delay phase (SpecAudio)
\* ------------------------------------------------------------------------
\* C17: an audio callback with speech active and no confirmation timer
\* pending flushes if and only if, the frame added, the buffered samples are
\* at least 0.6 x the native rate or 0.6 s have passed since the last-flush
\* time (lastSendTime, when there is one); it makes at most one flush, of all
\* the buffered frames in arrival order, and then the buffer is empty and the
\* last-flush time is the current time.
PostDelayBatching ==
  [][\A n \in FrameLens, late \in BOOLEAN :
       (speechStartTimeout = 0 /\ captured' = captured + n
          /\ (postDelayBuffer' # postDelayBuffer \/ nCalls' # nCalls)
          /\ OnMessage(n, TRUE, late)) =>
         LET frames == Append(postDelayBuffer, Frame(captured, n))
             due == \/ Len(Flatten(frames)) * 10 >= nativeSampleRate * FlushTenths
                    \/ (lastSendTime /\ late)
         IN IF due
            THEN /\ nCalls' = nCalls + 1
                 /\ ChunkOfCall(nCalls + 1, inflight', delivered') =
                      Flatten(frames)
                 /\ postDelayBuffer' = <<>>
                 /\ lastSendTime' = TRUE
            ELSE /\ postDelayBuffer' = frames
                 /\ UNCHANGED <<nCalls, inflight, delivered, lastSendTime>>]_vars

\* a flush on the elapsed-time path has been made: a post-delay chunk shorter
\* than 0.6 s of samples was delivered, the buffer is empty and the
\* last-flush time is set
PostDelayFlushed ==
  /\ nativeSampleRate = 2
  /\ lastSendTime
  /\ postDelayBuffer = <<>>
  /\ \E i \in DOMAIN delivered :
       delivered[i].kind = "post" /\ Len(delivered[i].samples) = 1

\* C18: when the onSpeechEnd handler has run, whatever callbacks and timer
\* outcomes came before it in the episode, the temp buffer and the
\* post-delay buffer are both empty.
TailNeverStranded ==
  [][OnSpeechEnd => tempBuffer' = <<>> /\ postDelayBuffer' = <<>>]_vars

\* C20: at any time at most one confirmation timer is pending.
OneTimerPending == Cardinality(timers) <= 1

\* ------------------------------------------------------------------------
\* Properties of the sockets (SpecWS)
\* ------------------------------------------------------------------------
LiveSockets ==
  {s \in DOMAIN sockets : sockets[s].readyState \in {"CONNECTING", "OPEN"}}

\* C19: across connect, close, reconnect and socket events, at most one
\* socket is in CONNECTING or OPEN state.
AtMostOneLiveSocket == Cardinality(LiveSockets) <= 1

\* ------------------------------------------------------------------------
\* Properties of the App (SpecApp)
\* ------------------------------------------------------------------------
\* C14: when the client's socket closes while recording is active, the
\* recording state is off and the capture resources are released afterwards.
DisconnectStopsRecording ==
  [][\A s \in DOMAIN sockets, failed \in BOOLEAN :
       (isRecording /\ s = socket /\ OnClose(s, failed)) =>
         /\ ~isRecording'
         /\ vadInstance' = 0
         /\ ~audioWorkletNode'
         /\ ~audioContext']_vars

\* ------------------------------------------------------------------------
\* Properties of the interim text (SpecTranscript)
\* ------------------------------------------------------------------------
\* C21: in every state reached by appending a new Segment to the transcript,
\* after a segment-list message or a flat transcription message, the interim
\* text is empty.
InterimClearedOnAppend ==
  [][(Render /\ Len(transcript') > Len(transcript)) => currentText' = ""]_vars

\* ------------------------------------------------------------------------
\* Properties of the client's sends and of close (SpecWS)
\* ------------------------------------------------------------------------
\* C22: whenever the client is not connected, sendAudioData and
\* endTranscription write nothing to any socket and leave isConnected,
\* isInitialConfigSent and socket as they were.
SendWhileDisconnectedNoOp ==
  [][(~isConnected /\ (SendAudioData \/ EndTranscription)) =>
       UNCHANGED <<sockets, isConnected, isInitialConfigSent, socket>>]_vars

\* C23: after close(), from any state of the client, the client has no
\* socket, isConnected is false and isInitialConfigSent is false.  close()
\* on a client without a socket does nothing and can be called in every
\* state, so the state after it is any state without a socket: in every such
\* state both flags are false.
CloseClearsState == socket = 0 => (~isConnected /\ ~isInitialConfigSent)

\* ------------------------------------------------------------------------
\* Properties of a whole utterance (SpecAudio)
\* ------------------------------------------------------------------------
\* C24: an utterance during which the VAD is active results in exactly one
\* processAndSendAudio call: in the first episode, once its confirmation
\* timer has fired and the onset chunk was handed over, the end of speech
\* makes no further call.
OneCallPerUtterance ==
  [][(OnSpeechEnd /\ nextTimer = 1 /\ timers = {} /\ lastSendTime) =>
       nCalls' = nCalls]_vars

\* ------------------------------------------------------------------------
\* Properties of the audio callback (SpecAudio)
\* ------------------------------------------------------------------------
\* C25: every audio callback, whatever the speech state, appends its frame
\* to the ring buffer (which then holds the latest samples, up to its
\* capacity); a callback that arrives while the speech-active flag is false
\* changes nothing else: the temp buffer, the post-delay buffer, the
\* last-flush time and the pending timer stay as they are and no chunk is
\* handed over.
SilenceRetained ==
  [][\A n \in FrameLens :
       captured' = captured + n =>
         LET all == GetBufferedAudio(RingState) \o Frame(captured, n)
             keep == Min(Len(all), bufferCapacity')
         IN /\ (\E active, late \in BOOLEAN : OnMessage(n, active, late)) =>
                 GetBufferedAudio(RingState)' =
                   SubSeq(all, Len(all) - keep + 1, Len(all))
            /\ (\E late \in BOOLEAN : OnMessage(n, FALSE, late)) =>
                 UNCHANGED <<tempBuffer, postDelayBuffer, lastSendTime, timers,
                   speechStartTimeout, nCalls, inflight, delivered>>]_vars

\* a frame arrived in silence after the start of an episode, with the ring
\* buffer wrapped: the timer is pending, nothing is in the temp buffer and
\* nothing was handed over
SilentFrameRetained ==
  /\ speechStartTimeout # 0
  /\ captured > speechStartAt
  /\ tempBuffer = <<>>
  /\ nCalls = 0
  /\ bufferFull

\* ------------------------------------------------------------------------
\* Properties of connect() in time (SpecWSFair)
\* ------------------------------------------------------------------------
\* C26: every call to connect() eventually resolves or rejects: the promise
\* of every socket that a call made is settled in the end.
ConnectSettles ==
  \A s \in 1..MaxSockets :
    (s \in DOMAIN sockets /\ sockets[s].promise = "pending")
      ~> (s \in DOMAIN sockets /\ sockets[s].promise # "pending")

\* ------------------------------------------------------------------------
\* Properties of isConnected (SpecWS)
\* ------------------------------------------------------------------------
\* C27: in every reachable state of a client, isConnected is true only if
\* the client's current socket exists and is open.
ConnectedMeansOpen ==
  isConnected => (socket # 0 /\ sockets[socket].readyState = "OPEN")

\* ------------------------------------------------------------------------
\* Properties of the stream the App sends (SpecApp)
\* ------------------------------------------------------------------------
\* C28: once stopRecording has sent the END_OF_AUDIO marker on a connection,
\* no audio payload is sent on that connection afterwards.
NoAudioAfterEnd ==
  \A s \in DOMAIN sockets :
    \A i, j \in DOMAIN sockets[s].wire :
      (i < j /\ sockets[s].wire[i] = "END_OF_AUDIO") =>
        sockets[s].wire[j] # "audio"

\* ------------------------------------------------------------------------
\* Properties of overlapping startRecording calls (SpecOverlap)
\* ------------------------------------------------------------------------
\* C29: for every interleaving of startRecording calls, a second one issued
\* while the first is still awaiting included, at most one audio context is
\* live at any time.
OneCapturePipeline == contextsOpen <= 1

\* ------------------------------------------------------------------------
\* Properties of the suggestion scheduler (SpecScheduler)
\* ------------------------------------------------------------------------
\* C30: after a suggestion request, no further suggestion request is issued
\* until a new Segment has been appended: a request that is not the first
\* is issued for a transcript longer than the one the request before it was
\* issued for.
SchedulerQuiescent ==
  [][(nRequests' = nRequests + 1 /\ nRequests > 0) =>
       Len(transcript) > suggestionWords]_vars

====
